---- MODULE Spec2Model ----
(***************************************************************************)
(* Model of scripts/roamie_biometric_auth.py: one invocation of the PAM    *)
(* biometric approval script.  One state variable per piece of program     *)
(* state, one action per step of main(); the helper functions of the       *)
(* script are operators over the responses they receive.                   *)
(*                                                                         *)
(* Time is measured in whole seconds on a clock that only moves forward.   *)
(* time.sleep(POLL_INTERVAL) is taken to last exactly POLL_INTERVAL        *)
(* seconds and a network call to last between 0 and CALL_TIMEOUT seconds.  *)
(***************************************************************************)
EXTENDS Integers, Sequences, FiniteSets, TLC

VARIABLES
    pc,             \* position of the single thread of control
    now,            \* wall clock, seconds since the process started
    jwt_file,       \* the credential file found at JWT_TOKEN_PATH
    warned,         \* read_jwt_token logged the insecure-permissions warning
    token,          \* main: token
    request_id,     \* main: request_id
    start_time,     \* wait_for_auth_response: start_time
    posts,          \* creation calls issued (requests.post)
    gets,           \* poll calls issued (requests.get)
    polled_id,      \* request id in the URL of the last poll call
    poll_start,     \* clock value when the last poll call was issued
    pendings,       \* poll calls that came back as (True, "pending")
    sleeps,         \* time.sleep calls completed
    create_resp,    \* response received to the creation call
    last_resp,      \* response received to the last poll call
    server_status,  \* status of the approval request held by the server
    timed_out,      \* the loop ended through the elapsed > REQUEST_TIMEOUT test
    raised,         \* exception that ended the invocation, if any
    uncaught,       \* the exception left the program uncaught
    exit_status     \* process exit status; NoExit while running

vars == <<pc, now, jwt_file, warned, token, request_id, start_time, posts,
          gets, polled_id, poll_start, pendings, sleeps, create_resp,
          last_resp, server_status, timed_out, raised, uncaught, exit_status>>

----------------------------------------------------------------------------
(* Configuration (lines 30-34) and the timeout= argument of both calls.    *)

REQUEST_TIMEOUT == 30
POLL_INTERVAL == 2
CALL_TIMEOUT == 5

NoExit == -1

----------------------------------------------------------------------------
(* Python values.  A JSON / Python value is a record of its type and its   *)
(* text, so that None, "" and a missing field stay distinct.               *)

PyNone == [type |-> "null", text |-> "None"]
JAbsent == [type |-> "absent", text |-> ""]
JStr(s) == [type |-> "string", text |-> s]
JNum(s) == [type |-> "number", text |-> s]

(* main testing `request_id is None` instead of `not request_id`.         *)
Truthy_not_none(v) == v.type # "null"

(* Truth value of a Python object: None, "" and 0 are false.               *)
Truthy(v) ==
    /\ v.type # "null"
    /\ ~(v.type = "string" /\ v.text = "")
    /\ ~(v.type = "number" /\ v.text = "0")

(* dict.get(key, default) on a body whose field value is body.val.         *)
DictGet(body, default) == IF body.val.type = "absent" THEN default ELSE body.val

(* A response: kind "http" carries code and body; any other kind is the    *)
(* exception the call raised.                                              *)
Http(code, shape, val) ==
    [kind |-> "http", code |-> code, body |-> [shape |-> shape, val |-> val]]
Raises(exc) ==
    [kind |-> exc, code |-> 0, body |-> [shape |-> "none", val |-> JAbsent]]
NoResp == [kind |-> "none", code |-> 0, body |-> [shape |-> "none", val |-> JAbsent]]

(* Exceptions of requests.exceptions.RequestException.                     *)
RequestExceptions == {"ConnectionError", "Timeout"}

----------------------------------------------------------------------------
(* read_jwt_token (lines 42-62).                                           *)

Whitespace == {" ", "\n", "\t"}

RECURSIVE LStrip(_)
LStrip(s) == IF s # <<>> /\ Head(s) \in Whitespace THEN LStrip(Tail(s)) ELSE s

RECURSIVE RStrip(_)
RStrip(s) ==
    IF s # <<>> /\ s[Len(s)] \in Whitespace
    THEN RStrip(SubSeq(s, 1, Len(s) - 1))
    ELSE s

(* str.strip()                                                             *)
Strip(s) == RStrip(LStrip(s))

TokNone == [some |-> FALSE, val |-> <<>>]
Tok(s) == [some |-> TRUE, val |-> s]

(* `not token` of main is false exactly for a non-empty string.            *)
TokTruthy(t) == t.some /\ t.val # <<>>

(* stat_info.st_mode & 0o077: the group and other permission bits.         *)
InsecureMode(mode) == mode % 64 # 0

(* read_jwt_token without the strip-and-empty test of lines 55-58.         *)
read_jwt_token_nostrip(file) ==
    IF ~file.exists THEN TokNone
    ELSE IF ~file.readable THEN TokNone
    ELSE Tok(file.content)

(* read_jwt_token refusing a file whose mode is open to group or others.   *)
read_jwt_token_strict_mode(file) ==
    IF ~file.exists THEN TokNone
    ELSE IF ~file.readable THEN TokNone
    ELSE IF InsecureMode(file.mode) THEN TokNone
    ELSE IF Strip(file.content) = <<>> THEN TokNone
    ELSE Tok(Strip(file.content))

(* The token read_jwt_token returns for a file.                            *)
read_jwt_token(file) ==
    IF ~file.exists THEN TokNone
    ELSE IF ~file.readable THEN TokNone
    ELSE IF Strip(file.content) = <<>> THEN TokNone
    ELSE Tok(Strip(file.content))

(* Whether read_jwt_token logs the permissions warning for a file.         *)
read_jwt_warns(file) == file.exists /\ InsecureMode(file.mode)

(* Credential files an invocation may find: absent, present but not        *)
(* readable (open raises), and readable with each mode and content.        *)
FileModes == {384, 420}       \* 0o600, 0o644
FileContents ==
    { <<>>, <<"\n">>, <<" ", "\t", "\n">>, <<" ", "j", "w", "t", "\n">> }
JwtFiles ==
    [exists : {FALSE}, readable : {FALSE}, mode : {384}, content : {<<>>}]
    \cup [exists : {TRUE}, readable : {FALSE}, mode : FileModes,
          content : {<<"j", "w", "t">>}]
    \cup [exists : {TRUE}, readable : {TRUE}, mode : FileModes,
          content : FileContents]

----------------------------------------------------------------------------
(* create_auth_request accepting every status below 300 instead of 201.    *)
create_auth_request_any2xx(resp) ==
    IF resp.kind # "http" THEN PyNone
    ELSE IF resp.code < 300
         THEN IF resp.body.shape # "object" THEN PyNone
              ELSE DictGet(resp.body, PyNone)
         ELSE PyNone

(* create_auth_request (lines 71-105): the request id returned for a       *)
(* response, None on every failure.                                        *)
create_auth_request(resp) ==
    IF resp.kind # "http" THEN PyNone                \* lines 100-105
    ELSE IF resp.code = 201
         THEN IF resp.body.shape # "object" THEN PyNone   \* json()/get raise
              ELSE DictGet(resp.body, PyNone)
         ELSE PyNone                                 \* lines 97-99

(* Responses the creation call may receive.  The field of the body is      *)
(* "request_id".                                                           *)
RequestIds == {JStr("r1"), JStr("r2")}
CreateResponses ==
    { Raises(e) : e \in RequestExceptions \cup {"Exception"} }
    \cup { Http(c, "object", JAbsent) : c \in {200, 400, 401, 500} }
    \cup { Http(200, "object", JStr("r1")) }
    \cup { Http(201, "notjson", JAbsent), Http(201, "array", JAbsent) }
    \cup { Http(201, "object", v) :
             v \in RequestIds \cup {JAbsent, PyNone, JStr(""), JNum("0")} }

----------------------------------------------------------------------------
(* poll_auth_status (lines 107-133): the pair (success, status).           *)
poll_auth_status(resp) ==
    IF resp.kind # "http" THEN <<FALSE, JStr("error")>>      \* lines 128-133
    ELSE IF resp.code = 200
         THEN IF resp.body.shape # "object"
              THEN <<FALSE, JStr("error")>>         \* json()/get raise
              ELSE <<TRUE, DictGet(resp.body, JStr("unknown"))>>
         ELSE <<FALSE, JStr("error")>>               \* lines 125-127

(* The loop with its last branch (lines 169-171) returning True.           *)
PollBranch_failopen(success, status) ==
    IF ~success THEN "deny"
    ELSE IF status = JStr("approved") THEN "allow"
    ELSE IF status = JStr("denied") THEN "deny"
    ELSE IF status \in {JStr("expired"), JStr("timeout")} THEN "deny"
    ELSE IF status = JStr("pending") THEN "sleep"
    ELSE "allow"

(* The loop retrying a failed poll call after the sleep instead of         *)
(* returning at lines 153-155.                                             *)
PollBranch_retry(success, status) ==
    IF ~success THEN "sleep"
    ELSE IF status = JStr("approved") THEN "allow"
    ELSE IF status = JStr("denied") THEN "deny"
    ELSE IF status \in {JStr("expired"), JStr("timeout")} THEN "deny"
    ELSE IF status = JStr("pending") THEN "sleep"
    ELSE "deny"

(* The loop polling on for every status that is not a known final one.     *)
PollBranch_unknown_pending(success, status) ==
    IF ~success THEN "deny"
    ELSE IF status = JStr("approved") THEN "allow"
    ELSE IF status = JStr("denied") THEN "deny"
    ELSE IF status \in {JStr("expired"), JStr("timeout")} THEN "deny"
    ELSE "sleep"

(* The loop without the expired/timeout branch of lines 163-165 taking    *)
(* those statuses for "still waiting".                                     *)
PollBranch_expired_pending(success, status) ==
    IF ~success THEN "deny"
    ELSE IF status = JStr("approved") THEN "allow"
    ELSE IF status = JStr("denied") THEN "deny"
    ELSE IF status \in {JStr("expired"), JStr("timeout"), JStr("pending")}
         THEN "sleep"
    ELSE "deny"

(* The branch wait_for_auth_response takes on a poll result                *)
(* (lines 153-171): "allow", "deny" or "sleep".                            *)
PollBranch(success, status) ==
    IF ~success THEN "deny"
    ELSE IF status = JStr("approved") THEN "allow"
    ELSE IF status = JStr("denied") THEN "deny"
    ELSE IF status \in {JStr("expired"), JStr("timeout")} THEN "deny"
    ELSE IF status = JStr("pending") THEN "sleep"
    ELSE "deny"

(* The deadline test comparing with POLL_INTERVAL, the neighbouring        *)
(* constant, instead of REQUEST_TIMEOUT.                                   *)
DeadlineExceeded_wrong_constant(elapsed) == elapsed > POLL_INTERVAL

(* The deadline test allowing for one more call timeout.                   *)
DeadlineExceeded_late(elapsed) == elapsed > REQUEST_TIMEOUT + CALL_TIMEOUT

(* The deadline test with >= in place of >.                                *)
DeadlineExceeded_ge(elapsed) == elapsed >= REQUEST_TIMEOUT

(* The loop without the deadline test of lines 147-149.                    *)
DeadlineExceeded_never(elapsed) == FALSE

(* The overall deadline test of line 147.                                  *)
DeadlineExceeded(elapsed) == elapsed > REQUEST_TIMEOUT

(* Statuses the server resolves a pending request to, and the response a   *)
(* poll call receives from a server that answers with the request's state. *)
Resolutions == {"approved", "denied", "expired", "timeout"}
StatusResponse(st) == Http(200, "object", JStr(st))

(* Every other response a poll call may receive: transport failures,       *)
(* non-200 statuses, malformed bodies and statuses outside the known set.  *)
KnownStatuses == {"pending"} \cup Resolutions
OddStatuses ==
    { JAbsent, PyNone, JStr("weird_value"), JStr("Approved"), JStr("error") }
OddPollResponses ==
    { Raises(e) : e \in RequestExceptions \cup {"Exception"} }
    \cup { Http(c, "object", JStr("approved")) : c \in {201, 500} }
    \cup { Http(200, "notjson", JAbsent), Http(200, "array", JAbsent) }
    \cup { Http(200, "object", v) : v \in OddStatuses }

(* The __main__ block without its KeyboardInterrupt handler: the           *)
(* interpreter ends the process on the uncaught interrupt.                 *)
main_guard_no_interrupt_handler(exc) ==
    IF exc = "Exception" THEN [status |-> 1, uncaught |-> FALSE]
    ELSE [status |-> 130, uncaught |-> TRUE]

(* The exit status the __main__ block (lines 202-210) gives an exception   *)
(* that reaches it.                                                        *)
main_guard(exc) ==
    IF exc = "KeyboardInterrupt" THEN [status |-> 1, uncaught |-> FALSE]
    ELSE IF exc = "Exception" THEN [status |-> 1, uncaught |-> FALSE]
    ELSE [status |-> 1, uncaught |-> TRUE]

----------------------------------------------------------------------------
(* The invocation.                                                         *)

Init ==
    /\ pc = "start"
    /\ now = 0
    /\ jwt_file \in JwtFiles
    /\ warned = FALSE
    /\ token = TokNone
    /\ request_id = PyNone
    /\ start_time = 0
    /\ posts = 0
    /\ gets = 0
    /\ polled_id = PyNone
    /\ poll_start = 0
    /\ pendings = 0
    /\ sleeps = 0
    /\ create_resp = NoResp
    /\ last_resp = NoResp
    /\ server_status = "none"
    /\ timed_out = FALSE
    /\ raised = "none"
    /\ uncaught = FALSE
    /\ exit_status = NoExit

(* sys.exit(main()) with main returning `status` (line 204).               *)
Return(status) ==
    /\ pc' = "done"
    /\ exit_status' = status
    /\ UNCHANGED <<raised, uncaught>>

(* An exception leaves main and reaches the handlers of lines 205-210.     *)
Propagate(exc) ==
    /\ pc' = "done"
    /\ raised' = exc
    /\ exit_status' = main_guard(exc).status
    /\ uncaught' = main_guard(exc).uncaught

(* main, lines 180-184: read the credential.                               *)
ReadToken ==
    /\ pc = "start"
    /\ token' = read_jwt_token(jwt_file)
    /\ warned' = read_jwt_warns(jwt_file)
    /\ IF TokTruthy(token')
       THEN /\ pc' = "create"
            /\ UNCHANGED <<exit_status, raised, uncaught>>
       ELSE Return(1)
    /\ UNCHANGED <<now, jwt_file, request_id, start_time, posts, gets,
                   polled_id, poll_start, pendings, sleeps, create_resp,
                   last_resp, server_status, timed_out>>

(* create_auth_request, lines 73-90: the creation call is sent.            *)
IssueCreate ==
    /\ pc = "create"
    /\ posts' = posts + 1
    /\ pc' = "creating"
    /\ UNCHANGED <<now, jwt_file, warned, token, request_id, start_time, gets,
                   polled_id, poll_start, pendings, sleeps, create_resp,
                   last_resp, server_status, timed_out, raised, uncaught,
                   exit_status>>

(* main calling create_auth_request again after a failure.                 *)
CreateResponse_retry ==
    /\ pc = "creating"
    /\ \E resp \in CreateResponses, d \in 0..CALL_TIMEOUT :
          /\ now' = now + d
          /\ create_resp' = resp
          /\ request_id' = create_auth_request(resp)
          /\ server_status' =
                IF resp.kind = "http" /\ resp.code = 201 THEN "pending" ELSE "none"
          /\ IF Truthy(request_id')
             THEN /\ pc' = "loop"
                  /\ start_time' = now'
                  /\ UNCHANGED <<exit_status, uncaught>>
                  /\ raised' = raised
             ELSE /\ pc' = "create"
                  /\ UNCHANGED exit_status
                  /\ raised' = IF resp.kind = "Exception" THEN "Exception" ELSE raised
                  /\ UNCHANGED <<start_time, uncaught>>
    /\ UNCHANGED <<jwt_file, warned, token, posts, gets, polled_id, poll_start,
                   pendings, sleeps, last_resp, timed_out>>

(* The start timestamp taken when the invocation starts, before the        *)
(* creation call, instead of at line 140.                                  *)
CreateResponse_early_start ==
    /\ pc = "creating"
    /\ \E resp \in CreateResponses, d \in 0..CALL_TIMEOUT :
          /\ now' = now + d
          /\ create_resp' = resp
          /\ request_id' = create_auth_request(resp)
          /\ server_status' =
                IF resp.kind = "http" /\ resp.code = 201 THEN "pending" ELSE "none"
          /\ IF Truthy(request_id')
             THEN /\ pc' = "loop"
                  /\ UNCHANGED start_time
                  /\ UNCHANGED <<exit_status, uncaught>>
                  /\ raised' = raised
             ELSE /\ pc' = "done"
                  /\ exit_status' = 1
                  /\ raised' = IF resp.kind = "Exception" THEN "Exception" ELSE raised
                  /\ UNCHANGED <<start_time, uncaught>>
    /\ UNCHANGED <<jwt_file, warned, token, posts, gets, polled_id, poll_start,
                   pendings, sleeps, last_resp, timed_out>>

(* create_auth_request, lines 90-105, and main, lines 187-193: the         *)
(* creation call ends after d seconds with `resp`; on success              *)
(* wait_for_auth_response starts and records start_time (line 140).        *)
CreateResponse ==
    /\ pc = "creating"
    /\ \E resp \in CreateResponses, d \in 0..CALL_TIMEOUT :
          /\ now' = now + d
          /\ create_resp' = resp
          /\ request_id' = create_auth_request(resp)
          /\ server_status' =
                IF resp.kind = "http" /\ resp.code = 201 THEN "pending" ELSE "none"
          /\ IF Truthy(request_id')
             THEN /\ pc' = "loop"
                  /\ start_time' = now'
                  /\ UNCHANGED <<exit_status, uncaught>>
                  /\ raised' = raised
             ELSE /\ pc' = "done"
                  /\ exit_status' = 1
                  /\ raised' = IF resp.kind = "Exception" THEN "Exception" ELSE raised
                  /\ UNCHANGED <<start_time, uncaught>>
    /\ UNCHANGED <<jwt_file, warned, token, posts, gets, polled_id, poll_start,
                   pendings, sleeps, last_resp, timed_out>>

(* wait_for_auth_response, lines 144-149: the deadline test succeeds.      *)
DeadlineExit ==
    /\ pc = "loop"
    /\ DeadlineExceeded(now - start_time)
    /\ timed_out' = TRUE
    /\ Return(1)
    /\ UNCHANGED <<now, jwt_file, warned, token, request_id, start_time, posts,
                   gets, polled_id, poll_start, pendings, sleeps, create_resp,
                   last_resp, server_status>>

(* The loop sending its poll call without the deadline test of line 147.   *)
IssuePoll_unchecked ==
    /\ pc = "loop"
    /\ gets' = gets + 1
    /\ polled_id' = request_id
    /\ poll_start' = now
    /\ pc' = "polling"
    /\ UNCHANGED <<now, jwt_file, warned, token, request_id, start_time, posts,
                   pendings, sleeps, create_resp, last_resp, server_status,
                   timed_out, raised, uncaught, exit_status>>

(* wait_for_auth_response, lines 144-151, and poll_auth_status,            *)
(* lines 112-119: the deadline test fails and a poll call is sent.         *)
IssuePoll ==
    /\ pc = "loop"
    /\ ~DeadlineExceeded(now - start_time)
    /\ gets' = gets + 1
    /\ polled_id' = request_id
    /\ poll_start' = now
    /\ pc' = "polling"
    /\ UNCHANGED <<now, jwt_file, warned, token, request_id, start_time, posts,
                   pendings, sleeps, create_resp, last_resp, server_status,
                   timed_out, raised, uncaught, exit_status>>

(* poll_auth_status, lines 119-133, and wait_for_auth_response,            *)
(* lines 153-171: the poll call ends after d seconds with `resp`, which is *)
(* the server's status of the request or one of the odd responses.         *)
PollResponse ==
    /\ pc = "polling"
    /\ \E resp \in {StatusResponse(server_status)} \cup OddPollResponses,
          d \in 0..CALL_TIMEOUT :
          LET r == poll_auth_status(resp)
              branch == PollBranch(r[1], r[2])
          IN  /\ now' = now + d
              /\ last_resp' = resp
              /\ pendings' = IF r = <<TRUE, JStr("pending")>>
                             THEN pendings + 1 ELSE pendings
              /\ raised' = IF resp.kind = "Exception" THEN "Exception" ELSE raised
              /\ UNCHANGED uncaught
              /\ IF branch = "sleep"
                 THEN /\ pc' = "sleeping"
                      /\ UNCHANGED exit_status
                 ELSE /\ pc' = "done"
                      /\ exit_status' = IF branch = "allow" THEN 0 ELSE 1
    /\ UNCHANGED <<jwt_file, warned, token, request_id, start_time, posts, gets,
                   polled_id, poll_start, sleeps, create_resp, server_status,
                   timed_out>>

(* wait_for_auth_response, line 168: time.sleep(POLL_INTERVAL) returns.    *)
Sleep ==
    /\ pc = "sleeping"
    /\ now' = now + POLL_INTERVAL
    /\ sleeps' = sleeps + 1
    /\ pc' = "loop"
    /\ UNCHANGED <<jwt_file, warned, token, request_id, start_time, posts, gets,
                   polled_id, poll_start, pendings, create_resp, last_resp,
                   server_status, timed_out, raised, uncaught, exit_status>>

(* The environment: the user answers on the phone, or the server expires   *)
(* the request, while the script waits.                                    *)
Resolve ==
    /\ pc \in {"loop", "polling", "sleeping"}
    /\ server_status = "pending"
    /\ \E r \in Resolutions : server_status' = r
    /\ UNCHANGED <<pc, now, jwt_file, warned, token, request_id, start_time,
                   posts, gets, polled_id, poll_start, pendings, sleeps,
                   create_resp, last_resp, timed_out, raised, uncaught,
                   exit_status>>

(* SIGINT arrives while the script runs: KeyboardInterrupt is not caught   *)
(* by any `except Exception` and reaches line 205.                         *)
Interrupt ==
    /\ pc # "done"
    /\ Propagate("KeyboardInterrupt")
    /\ UNCHANGED <<now, jwt_file, warned, token, request_id, start_time, posts,
                   gets, polled_id, poll_start, pendings, sleeps, create_resp,
                   last_resp, server_status, timed_out>>

(* An unexpected exception outside every try block (main lines 176-178,    *)
(* create_auth_request lines 73-86, time.time() and time.sleep() of the    *)
(* loop) reaches line 208.  Inside read_jwt_token the try block catches    *)
(* it and main returns 1 for the missing token (lines 60-62, 182-184).     *)
Fault ==
    /\ pc \in {"start", "create", "loop", "sleeping"}
    /\ \/ Propagate("Exception")
       \/ /\ pc = "start"
          /\ raised' = "Exception"
          /\ pc' = "done"
          /\ exit_status' = 1
          /\ UNCHANGED uncaught
    /\ UNCHANGED <<now, jwt_file, warned, token, request_id, start_time, posts,
                   gets, polled_id, poll_start, pendings, sleeps, create_resp,
                   last_resp, server_status, timed_out>>

Next ==
    \/ ReadToken
    \/ IssueCreate
    \/ CreateResponse
    \/ DeadlineExit
    \/ IssuePoll
    \/ PollResponse
    \/ Sleep
    \/ Resolve
    \/ Interrupt
    \/ Fault

Spec == Init /\ [][Next]_vars

(* The steps of the script itself.  It is a single thread that always      *)
(* runs its next statement; every network call returns or fails within     *)
(* its timeout and every sleep returns, so a step that can be taken is     *)
(* taken.  Interrupts, faults and the server's resolution may never come.  *)
Step ==
    \/ ReadToken
    \/ IssueCreate
    \/ CreateResponse
    \/ DeadlineExit
    \/ IssuePoll
    \/ PollResponse
    \/ Sleep

FairSpec == Spec /\ WF_vars(Step)

----------------------------------------------------------------------------
(* Properties.                                                             *)

Done == pc = "done"

(* The creation call came back 201 with a usable request_id.               *)
Created ==
    /\ create_resp.kind = "http"
    /\ create_resp.code = 201
    /\ create_resp.body.shape = "object"
    /\ Truthy(create_resp.body.val)
    /\ request_id = create_resp.body.val

(* C1: the process exits 0 only if the credential was loaded, the creation *)
(* call returned 201 with a request_id, and a poll call for that same      *)
(* request_id returned 200 with status exactly "approved"; every other     *)
(* terminating run exits 1.                                                *)
C1_ExitZeroOnlyWhenApproved ==
    /\ Done => exit_status \in {0, 1}
    /\ ~Done => exit_status = NoExit
    /\ exit_status = 0 =>
          /\ jwt_file.exists /\ jwt_file.readable
          /\ token = Tok(Strip(jwt_file.content)) /\ token.val # <<>>
          /\ posts = 1
          /\ Created
          /\ gets >= 1
          /\ polled_id = request_id
          /\ last_resp = StatusResponse("approved")

C1_Witness == exit_status = 0 /\ pendings = 2 /\ request_id = JStr("r2")

(* A credential file that is missing, unreadable or all whitespace.        *)
BadCredential(file) ==
    \/ ~file.exists
    \/ ~file.readable
    \/ \A i \in 1..Len(file.content) : file.content[i] \in Whitespace

(* C2: for a credential file that is missing, unreadable or holds only     *)
(* whitespace, no creation call and no poll call is ever issued and the    *)
(* invocation ends with exit status 1.                                     *)
C2_BadCredentialNoNetwork ==
    BadCredential(jwt_file) =>
        /\ posts = 0 /\ gets = 0
        /\ pc \in {"start", "done"}
        /\ Done => exit_status = 1

C2_Witness ==
    /\ Done /\ raised = "none"
    /\ jwt_file.exists /\ jwt_file.readable
    /\ jwt_file.content = <<" ", "\t", "\n">>

(* The creation failures of section 8: a status other than 201, a refused  *)
(* connection, a timeout, a body that is not JSON.                         *)
CreationFailure(resp) ==
    \/ resp.kind \in RequestExceptions
    \/ resp.kind = "http" /\ resp.code # 201
    \/ resp.kind = "http" /\ resp.code = 201 /\ resp.body.shape = "notjson"

(* C3: after a creation response other than 201, a refused connection, a   *)
(* timeout or an unparseable body, the result is exit status 1 and no poll *)
(* call is ever issued.                                                    *)
C3_CreationFailureDenies ==
    CreationFailure(create_resp) => Done /\ exit_status = 1 /\ gets = 0

C3_Witness == Done /\ create_resp = Http(200, "object", JStr("r1"))

(* A failed poll call: a transport error or a status other than 200.       *)
PollFailure(resp) ==
    \/ resp.kind \in RequestExceptions
    \/ resp.kind = "http" /\ resp.code # 200

(* C4: a poll call that fails, at any position of the poll sequence, ends  *)
(* the invocation at once with exit status 1: it is the last poll call and *)
(* no sleep follows it.                                                    *)
C4_PollFailureDeniesAtOnce ==
    PollFailure(last_resp) =>
        /\ Done /\ exit_status = 1
        /\ gets = pendings + 1
        /\ sleeps = pendings

C4_Witness ==
    /\ Done /\ last_resp = Raises("ConnectionError") /\ pendings = 2

(* A successful poll whose status is missing or outside the known set.     *)
UnknownStatus(resp) ==
    /\ resp.kind = "http" /\ resp.code = 200 /\ resp.body.shape = "object"
    /\ ~(resp.body.val.type = "string" /\ resp.body.val.text \in KnownStatuses)

(* C5: a 200 poll response whose status is outside {pending, approved,     *)
(* denied, expired, timeout}, or that has no status field, ends the        *)
(* invocation with exit status 1 and is the last poll call.                *)
C5_UnknownStatusDenies ==
    UnknownStatus(last_resp) =>
        /\ Done /\ exit_status = 1
        /\ gets = pendings + 1
        /\ poll_auth_status(last_resp)[1]
        /\ last_resp.body.val = JAbsent =>
              poll_auth_status(last_resp)[2] = JStr("unknown")

C5_Witness ==
    /\ Done /\ last_resp = Http(200, "object", JStr("weird_value"))
    /\ pendings = 1

(* The server answers every poll call with the state of the request: k     *)
(* times "pending" and then `st`.  The run is over, was not interrupted,   *)
(* and either it received `st` or it stopped asking at the deadline.       *)
PollSequenceEndsWith(st) ==
    /\ Done /\ raised = "none"
    /\ server_status = st
    /\ timed_out \/ last_resp = StatusResponse(st)

(* Seconds the poll calls of the invocation took in total.                 *)
CallSeconds == now - start_time - POLL_INTERVAL * sleeps

(* C6 as stated: k pending results followed by approved end in exit status *)
(* 0 after exactly k+1 poll calls, for every k.                            *)
C6_AsStated ==
    PollSequenceEndsWith("approved") =>
        exit_status = 0 /\ gets = pendings + 1

(* C6: k pending results followed by approved end in exit status 0 after   *)
(* exactly k+1 poll calls, unless the deadline test stops the loop first,  *)
(* which takes at least 5 pending results; then the result is exit status  *)
(* 1 after exactly k poll calls.                                           *)
C6_PendingThenApproved ==
    PollSequenceEndsWith("approved") =>
        IF timed_out
        THEN exit_status = 1 /\ gets = pendings /\ pendings >= 5
        ELSE exit_status = 0 /\ gets = pendings + 1 /\ sleeps = pendings

C6_Witness ==
    PollSequenceEndsWith("approved") /\ ~timed_out /\ pendings = 2 /\ gets = 3

(* C7 as stated: k pending results followed by denied, expired or timeout  *)
(* end in exit status 1 after exactly k+1 poll calls, for every k.         *)
C7_AsStated ==
    \A st \in Resolutions \ {"approved"} :
        PollSequenceEndsWith(st) => exit_status = 1 /\ gets = pendings + 1

(* C7: k pending results followed by denied, expired or timeout end in     *)
(* exit status 1; the poll calls number exactly k+1 unless the deadline    *)
(* test stops the loop first, which takes at least 5 pending results, and  *)
(* then they number exactly k.                                             *)
C7_PendingThenDenied ==
    \A st \in Resolutions \ {"approved"} :
        PollSequenceEndsWith(st) =>
            /\ exit_status = 1
            /\ IF timed_out
               THEN gets = pendings /\ pendings >= 5
               ELSE gets = pendings + 1 /\ sleeps = pendings

C7_Witness ==
    PollSequenceEndsWith("denied") /\ ~timed_out /\ pendings = 1 /\ gets = 2

(* C8 as stated: when every poll returns pending until the deadline, the   *)
(* poll calls number between 14 and 16 whatever time each call takes.      *)
C8_AsStated == timed_out => gets \in 14..16

(* C8: when every poll returns pending until the deadline, the result is   *)
(* exit status 1 and the poll calls number between 5 and 16; they number   *)
(* 14 to 16 when the calls together take less than 4 seconds.              *)
C8_PollCountAtDeadline ==
    timed_out =>
        /\ Done /\ exit_status = 1
        /\ gets = pendings
        /\ gets \in 5..16
        /\ CallSeconds < 4 => gets \in 14..16

C8_Witness == timed_out /\ gets = 5

(* The loop of wait_for_auth_response has started and more than           *)
(* REQUEST_TIMEOUT seconds have passed since its start timestamp.          *)
PastDeadline ==
    /\ pc \in {"loop", "polling", "sleeping", "done"}
    /\ Created
    /\ now - start_time > REQUEST_TIMEOUT

(* C9 as stated: once the deadline is exceeded no poll call is started and *)
(* the result is exit status 1 whatever a call in flight returns.          *)
C9_AsStated ==
    PastDeadline =>
        /\ poll_start - start_time <= REQUEST_TIMEOUT
        /\ (Done /\ raised = "none") => exit_status = 1

(* C9: once the deadline is exceeded no poll call is started; the result   *)
(* is exit status 1 unless the poll call that was in flight when the       *)
(* deadline passed returns approved, and then it is exit status 0.         *)
C9_NoPollAfterDeadline ==
    PastDeadline =>
        /\ poll_start - start_time <= REQUEST_TIMEOUT
        /\ pc # "polling"
        /\ (Done /\ raised = "none") =>
              /\ exit_status = 0 <=> last_resp = StatusResponse("approved")
              /\ exit_status = 1 <=> last_resp # StatusResponse("approved")

C9_Witness == PastDeadline /\ Done /\ exit_status = 0

(* C10: an interrupt or an unexpected fault at any point ends the process  *)
(* with exit status 1, caught, and no network call is issued after it.     *)
C10_InterruptDenies ==
    /\ [](raised # "none" => Done /\ exit_status = 1 /\ ~uncaught)
    /\ [][raised # "none" => posts' = posts /\ gets' = gets]_vars
    /\ [][raised' # raised => pc' = "done" /\ posts' = posts /\ gets' = gets]_vars

C10_Witness ==
    /\ raised = "KeyboardInterrupt" /\ Done
    /\ pendings = 2 /\ sleeps = 1

(* C11: an invocation issues at most one creation call: none before the    *)
(* credential is loaded, exactly one in every run that ends after the      *)
(* credential was loaded unless an interrupt or fault cut it short first,  *)
(* and the count never changes once the call has been answered, neither    *)
(* after a failure nor during polling.                                     *)
C11_OneCreationCall ==
    /\ [](posts \in {0, 1})
    /\ [](posts = 1 => TokTruthy(token))
    /\ []((Done /\ raised = "none" /\ TokTruthy(token)) => posts = 1)
    /\ [](pc \in {"creating", "loop", "polling", "sleeping"} => posts = 1)
    /\ [][create_resp # NoResp => posts' = posts]_vars

C11_Witness ==
    /\ Done /\ posts = 1 /\ gets = 0
    /\ create_resp = Http(500, "object", JAbsent)

(* Most poll calls the deadline leaves room for: one at each multiple of   *)
(* POLL_INTERVAL from 0 to REQUEST_TIMEOUT.                                *)
MaxPolls == REQUEST_TIMEOUT \div POLL_INTERVAL + 1

(* Longest an invocation can last: the creation call, the window, and the  *)
(* poll call and sleep that may straddle its end.                          *)
MaxSeconds == CALL_TIMEOUT + REQUEST_TIMEOUT + CALL_TIMEOUT + POLL_INTERVAL

(* C12: every invocation ends with exit status 0 or 1, within MaxSeconds   *)
(* seconds and after at most MaxPolls poll calls; against a server that    *)
(* answers pending to every poll it ends with exit status 1.               *)
C12_Terminates ==
    /\ <>Done
    /\ [](Done => exit_status \in {0, 1})
    /\ [](now <= MaxSeconds)
    /\ [](gets <= MaxPolls /\ sleeps <= MaxPolls)
    /\ []((Done /\ raised = "none" /\ gets >= 1 /\ gets = pendings) =>
            exit_status = 1)

C12_Witness ==
    /\ Done /\ raised = "none" /\ server_status = "pending"
    /\ gets = MaxPolls /\ pendings = MaxPolls /\ exit_status = 1

(* C13: a 201 creation response whose body has no request_id, a null one   *)
(* or an empty one ends the invocation with exit status 1 and no poll call.*)
C13_MissingRequestIdDenies ==
    (/\ create_resp.kind = "http" /\ create_resp.code = 201
     /\ create_resp.body.shape = "object"
     /\ create_resp.body.val \in {JAbsent, PyNone, JStr("")}) =>
        /\ Done /\ exit_status = 1
        /\ gets = 0
        /\ posts = 1

C13_Witness == Done /\ create_resp = Http(201, "object", JStr(""))

(* C14 as stated: the creation call, sent at clock 0, counts against the   *)
(* window, so no poll call starts later than REQUEST_TIMEOUT seconds after *)
(* the creation call was sent.                                             *)
C14_AsStated == gets >= 1 => poll_start <= REQUEST_TIMEOUT

(* C14: the creation call is sent at clock 0 and the start timestamp is    *)
(* the clock value at which it returns, so the time it takes does not      *)
(* count against the window: poll calls start up to REQUEST_TIMEOUT        *)
(* seconds after the creation call returned.                               *)
C14_WindowStartsAfterCreation ==
    /\ pc \in {"start", "create", "creating"} => now = 0
    /\ (pc = "loop" /\ gets = 0) =>
          now = start_time /\ start_time \in 0..CALL_TIMEOUT
    /\ gets >= 1 =>
          /\ poll_start >= start_time
          /\ poll_start - start_time <= REQUEST_TIMEOUT

C14_Witness ==
    /\ pc = "polling"
    /\ start_time = CALL_TIMEOUT
    /\ poll_start = CALL_TIMEOUT + REQUEST_TIMEOUT

(* C15: a sleep of POLL_INTERVAL seconds follows a poll exactly when that  *)
(* poll returned pending; no sleep precedes the first poll or follows a    *)
(* final status; two consecutive poll calls start at least POLL_INTERVAL   *)
(* seconds apart.                                                          *)
C15_SleepIffPending ==
    /\ [](sleeps <= pendings /\ pendings <= sleeps + 1)
    /\ [](pc = "sleeping" <=>
            (~Done /\ pendings = sleeps + 1
             /\ last_resp = StatusResponse("pending")))
    /\ []((Done /\ raised = "none" /\ gets >= 1) => sleeps = pendings)
    /\ [][sleeps' = sleeps + 1 =>
            /\ last_resp = StatusResponse("pending")
            /\ now' = now + POLL_INTERVAL
            /\ gets' = gets]_vars
    /\ [][gets' = gets + 1 =>
            /\ sleeps = gets /\ pendings = gets
            /\ gets >= 1 => now >= poll_start + POLL_INTERVAL]_vars

C15_Witness == pc = "polling" /\ gets = 3 /\ sleeps = 2 /\ now = 4

(* C16: a readable credential file whose mode is open to group or others   *)
(* and whose content is not all whitespace only draws the warning: the     *)
(* token is the one a file of mode 0o600 gives and the creation call is    *)
(* issued.                                                                 *)
C16_InsecureModeOnlyWarns ==
    (/\ jwt_file.exists /\ jwt_file.readable
     /\ jwt_file.mode % 64 # 0
     /\ Strip(jwt_file.content) # <<>>
     /\ pc # "start" /\ raised = "none") =>
        /\ warned
        /\ token = Tok(Strip(jwt_file.content))
        /\ token = read_jwt_token([jwt_file EXCEPT !.mode = 384])
        /\ pc = "create" \/ posts = 1

C16_Witness ==
    /\ jwt_file.mode = 420 /\ warned
    /\ exit_status = 0

(* C17: when every poll returns pending the run ends only through the      *)
(* deadline test, with exit status 1, at an iteration whose elapsed time   *)
(* is more than REQUEST_TIMEOUT; at an elapsed time of exactly             *)
(* REQUEST_TIMEOUT a poll call is still issued.                            *)
C17_StrictDeadline ==
    /\ [](timed_out =>
            Done /\ exit_status = 1 /\ now - start_time > REQUEST_TIMEOUT)
    /\ []((Done /\ raised = "none" /\ gets >= 1 /\ gets = pendings) =>
            timed_out)
    /\ []((pc = "loop" /\ now - start_time = REQUEST_TIMEOUT) =>
            ENABLED IssuePoll /\ ~ENABLED DeadlineExit)
    /\ [][(pc = "loop" /\ now - start_time <= REQUEST_TIMEOUT
           /\ raised' = "none" /\ server_status' = server_status) =>
            gets' = gets + 1]_vars

C17_Witness ==
    /\ timed_out /\ gets = 16
    /\ poll_start - start_time = REQUEST_TIMEOUT

(* C18: the decision of wait_for_auth_response is reached no later than    *)
(* REQUEST_TIMEOUT + CALL_TIMEOUT + POLL_INTERVAL seconds after the start  *)
(* timestamp, and the last poll call starts no later than REQUEST_TIMEOUT  *)
(* seconds after it.                                                       *)
C18_DecisionTimeBound ==
    (pc \in {"loop", "polling", "sleeping", "done"} /\ Created) =>
        /\ now - start_time <= REQUEST_TIMEOUT + CALL_TIMEOUT + POLL_INTERVAL
        /\ gets >= 1 => poll_start - start_time <= REQUEST_TIMEOUT

C18_Witness ==
    /\ Done /\ timed_out
    /\ now - start_time = REQUEST_TIMEOUT + CALL_TIMEOUT + POLL_INTERVAL

====
